---------------------------- MODULE Spec2Model ----------------------------
(***************************************************************************)
(* A model of paksimInfo.py: the lookup gateway that classifies a query,  *)
(* waits on a process-wide rate limiter, posts the query to the upstream  *)
(* page, parses the returned table and answers with a JSON envelope.      *)
(*                                                                         *)
(* A Python str is a sequence of one-character strings.  The character    *)
(* "U+0663" stands for ARABIC-INDIC DIGIT THREE, a character of Unicode   *)
(* category Nd that is no ASCII digit.  Time is counted in ticks of half  *)
(* a second.                                                               *)
(***************************************************************************)
EXTENDS Integers, Sequences, FiniteSets, TLC

(***************************************************************************)
(* Bounds of the model.                                                    *)
(***************************************************************************)
\* number of request-handling threads of the server
NumThreads == 2
\* number of ticks the clock advances after start-up
MaxTicks == 3
\* number of requests the server receives in one behaviour
MaxRequests == 2
\* longest run of digits in a generated query string
MaxDigits == 14
\* most rows in a generated table body
MaxRows == 3

(***************************************************************************)
(* Config, lines 14-21.                                                    *)
(***************************************************************************)
ALLOW_UPSTREAM == TRUE
\* MIN_INTERVAL = 1.0 second, in ticks of half a second
MIN_INTERVAL == 2
DEVELOPER == "Savitar"
\* the value None, and the JSON numbers 0 and 5: values that are no str
None == <<"None">>
Int0 == <<"int:0">>
Int5 == <<"int:5">>

VARIABLES
    clock,      \* time.time(), in ticks
    LAST_CALL,  \* LAST_CALL["ts"]
    pc,         \* the line each thread is at
    req,        \* the request each thread is handling
    local,      \* the locals of each thread: qtype, normalized, wake, fetched, html, e
    resp,       \* the response each thread has produced
    acquires,   \* rate_limit_wait calls completed by the thread's request
    posts,      \* upstream POSTs issued by the thread's request
    calls,      \* the times at which upstream POSTs were issued, in order
    served,     \* requests received so far
    arg,        \* argument of the function under test
    ret         \* its result

vars == <<clock, LAST_CALL, pc, req, local, resp, acquires, posts, calls,
          served, arg, ret>>

(***************************************************************************)
(* Characters and str methods.                                             *)
(***************************************************************************)
AsciiDigits == {"0", "1", "2", "3", "4", "5", "6", "7", "8", "9"}

\* what \d matches in a str pattern: any Unicode decimal digit
IsDigit(c) == c \in AsciiDigits \cup {"U+0663"}

\* what str.strip() removes
IsSpace(c) == c \in {" ", "\t", "\n"}

RECURSIVE LStrip(_)
LStrip(s) ==
    IF s # <<>> /\ IsSpace(Head(s)) THEN LStrip(Tail(s)) ELSE s

RECURSIVE RStrip(_)
RStrip(s) ==
    IF s # <<>> /\ IsSpace(s[Len(s)])
    THEN RStrip(SubSeq(s, 1, Len(s) - 1))
    ELSE s

\* str.strip()
Strip(s) == RStrip(LStrip(s))

\* s[i:] for 0 <= i
SliceFrom(s, i) == SubSeq(s, i + 1, Len(s))

\* re.fullmatch(<prefix>\d{n}, s): the whole of s is prefix then n digits
FullMatch(prefix, n, s) ==
    /\ Len(s) = Len(prefix) + n
    /\ SubSeq(s, 1, Len(prefix)) = prefix
    /\ \A i \in (Len(prefix) + 1)..Len(s) : IsDigit(s[i])

\* re.match(<prefix>\d{n}, s): s starts with prefix then n digits
PrefixMatch(prefix, n, s) ==
    /\ Len(s) >= Len(prefix) + n
    /\ SubSeq(s, 1, Len(prefix)) = prefix
    /\ \A i \in (Len(prefix) + 1)..(Len(prefix) + n) : IsDigit(s[i])

(***************************************************************************)
(* Helpers, lines 26-54.                                                   *)
(***************************************************************************)
is_mobile(value) == FullMatch(<<"9", "2">>, 10, value)

is_local_mobile(value) == FullMatch(<<"0", "3">>, 9, value)

is_cnic_prefix(value) == PrefixMatch(<<>>, 13, value)

is_cnic(value) == FullMatch(<<>>, 13, value)

normalize_mobile_keep0(value) ==
    LET v == Strip(value)
    IN  IF is_mobile(v) THEN v
        ELSE IF is_local_mobile(v) THEN <<"9", "2">> \o v
        ELSE v

normalize_mobile(value) ==
    LET v == Strip(value)
    IN  IF is_mobile(v) THEN v
        ELSE IF is_local_mobile(v) THEN <<"9", "2">> \o SliceFrom(v, 1)
        ELSE v

InvalidQueryMsg ==
    "Invalid query. Use CNIC (13 digits) or mobile (03XXXXXXXXX / 92XXXXXXXXXX)."

\* what a call returns or raises
Returned(kind, value) ==
    [raised |-> "no", kind |-> kind, value |-> value, detail |-> ""]

Raised(exc, detail) ==
    [raised |-> exc, kind |-> "", value |-> <<>>, detail |-> detail]

\* whether a value is a str, and its truth value
IsStr(value) == value \notin {None, Int0, Int5}

Truthy(value) == value \notin {None, Int0, <<>>}

\* value.strip() raises AttributeError on a value that is no str
classify_query(value) ==
    IF ~IsStr(value)
    THEN Raised("AttributeError", "object has no attribute 'strip'")
    ELSE LET v == Strip(value)
             normalized == normalize_mobile(v)
         IN  IF is_cnic(v) THEN Returned("cnic", v)
             ELSE IF is_mobile(normalized) THEN Returned("mobile", normalized)
             ELSE Raised("ValueError", InvalidQueryMsg)

(***************************************************************************)
(* parse_table, lines 90-123.  A document is the sequence of its tables;  *)
(* a table has a class, may have a tbody, and the tbody is the sequence   *)
(* of its tr, each the sequence of the texts of its td.                   *)
(***************************************************************************)
Table(cls, hasBody, rows) == [cls |-> cls, hasBody |-> hasBody, rows |-> rows]

\* soup.find("table", {"class": "api-response"}) or soup.find("table"):
\* the index of the table chosen, 0 for None
RECURSIVE FindClass(_, _, _)
FindClass(html, cls, i) ==
    IF i > Len(html) THEN 0
    ELSE IF html[i].cls = cls THEN i
    ELSE FindClass(html, cls, i + 1)

FindTable(html) ==
    LET marked == FindClass(html, "api-response", 1)
    IN  IF marked # 0 THEN marked
        ELSE IF html = <<>> THEN 0 ELSE 1

\* cols = [td.get_text(strip=True) for td in tr.find_all("td")]
Cols(tr) == [i \in 1..Len(tr) |-> Strip(tr[i])]

\* cols[i] if len(cols) > i else None
ColOrNone(cols, i) == IF Len(cols) > i THEN cols[i + 1] ELSE None

RowRecord(tr) ==
    LET cols == Cols(tr)
    IN  [mobile  |-> ColOrNone(cols, 0),
         name    |-> ColOrNone(cols, 1),
         cnic    |-> ColOrNone(cols, 2),
         address |-> ColOrNone(cols, 3)]

RowKeyWithAddress(r) == <<r.mobile, r.cnic, r.name, r.address>>

\* key = (mobile, cnic, name)
RowKey(r) == <<r.mobile, r.cnic, r.name>>

\* the for loop of lines 103-121, from row i on
RECURSIVE ParseRows(_, _, _, _)
ParseRows(rows, i, results, seen) ==
    IF i > Len(rows) THEN results
    ELSE LET r == RowRecord(rows[i])
             key == RowKey(r)
         IN  IF key \in seen
             THEN ParseRows(rows, i + 1, results, seen)
             ELSE ParseRows(rows, i + 1, Append(results, r), seen \cup {key})

parse_table_raises(html) ==
    LET t == FindTable(html)
    IN  IF t = 0 THEN Raised("AttributeError", "no table")
        ELSE IF ~html[t].hasBody THEN Raised("AttributeError", "no tbody")
        ELSE Returned("records", ParseRows(html[t].rows, 1, <<>>, {}))

parse_table(html) ==
    LET t == FindTable(html)
    IN  IF t = 0 THEN Returned("records", <<>>)
        ELSE IF ~html[t].hasBody THEN Returned("records", <<>>)
        ELSE Returned("records", ParseRows(html[t].rows, 1, <<>>, {}))

\* lines 125-132
make_response_object(query, qtype, results) ==
    [query         |-> query,
     query_type    |-> qtype,
     results_count |-> Len(results),
     results       |-> results,
     developer     |-> DEVELOPER]

(***************************************************************************)
(* Inputs.                                                                 *)
(***************************************************************************)
Rep(c, n) == [i \in 1..n |-> c]

Q_local == <<"0", "3", "0", "0", "1", "2", "3", "4", "5", "6", "7">>
Q_intl  == <<"9", "2", "3", "0", "0", "1", "2", "3", "4", "5", "6", "7">>
Q_cnic  == <<"1", "2", "3", "4", "5", "6", "7", "8", "9", "0", "1", "2", "3">>
Q_abc   == <<"a", "b", "c">>

\* query strings: the four above, bare and padded; and padding, a head,
\* two runs of digits around an optional character that is no digit, padding
QueryStrings ==
    { lead \o q \o trail :
        lead \in {<<>>, <<" ">>},
        q \in {Q_local, Q_intl, Q_cnic, Q_abc},
        trail \in {<<>>, <<"\n">>} }
    \cup
    { lead \o head \o Rep(d, n1) \o mid \o Rep(d, n2) \o trail :
        lead \in {<<>>, <<" ">>},
        head \in {<<>>, <<"0", "3">>, <<"9", "2">>, <<"0">>, <<"9", "3">>,
                  <<"+", "9", "2">>},
        d \in {"7", "U+0663"},
        n1 \in 0..MaxDigits,
        n2 \in {0, 1, 9, 10},
        mid \in {<<>>, <<"-">>, <<" ">>},
        trail \in {<<>>, <<"\n">>, <<"x">>} }

\* rows of a table body: four-cell rows that agree or differ in one column,
\* one with padded cells, short rows, a row with a fifth cell
TableRows ==
    { <<<<"a">>, <<"n">>, <<"c">>, <<"x">>>>,
      <<<<"a">>, <<"n">>, <<"c">>, <<"y">>>>,
      <<<<" ", "a">>, <<"n", " ">>, <<"c">>, <<"z">>>>,
      <<<<"b">>, <<"n">>, <<"c">>, <<"x">>>>,
      <<<<"a">>, <<"m">>, <<"c">>, <<"x">>>>,
      <<<<"a">>, <<"n">>, <<"d">>, <<"x">>>>,
      <<<<"a">>, <<"n">>, <<"c">>, <<"x">>, <<"w">>>>,
      <<<<"a">>, <<"n">>, <<"c">>>>,
      <<<<"a">>>>,
      <<>> }

RowSeqs == UNION { [1..n -> TableRows] : n \in 0..MaxRows }

\* documents: without a table, with a table without tbody, with one table,
\* with an unmarked table before the marked one
Documents ==
    { <<>>, <<Table("api-response", FALSE, <<>>)>>,
      <<Table("other", FALSE, <<>>)>> }
    \cup { <<Table(c, TRUE, rows)>> :
             c \in {"api-response", "other"}, rows \in RowSeqs }
    \cup { <<Table("other", TRUE, <<<<<<"b">>>>>>), Table("api-response", TRUE, rows)>> :
             rows \in { r \in RowSeqs : Len(r) <= 1 } }

(***************************************************************************)
(* Requests.  A request has a route, the kind of its JSON body (POST) and *)
(* the three values the handler looks at: the parameters query, q, value  *)
(* (GET), the path segment (path), the keys query, number, value (POST).  *)
(***************************************************************************)
Threads == 1..NumThreads

Request(route, json, fields) == [route |-> route, json |-> json, fields |-> fields]

NoRequest == Request("none", "none", <<None, None, None>>)

GetRequests ==
    { Request("get", "none", f) :
        f \in { <<None, None, None>>, <<<<>>, None, None>>,
                <<None, Q_abc, None>>, <<<<>>, None, Q_cnic>> } }

\* a path segment is never empty
PathRequests ==
    { Request("path", "none", <<q, None, None>>) :
        q \in { Q_abc, <<" ">> \o Q_local } }

\* get_json(force=True, silent=True) is None for a body that is no JSON
PostRequests ==
    { Request("post", "none", <<None, None, None>>),
      Request("post", "array", <<None, None, None>>) }
    \cup
    { Request("post", "object", f) :
        f \in { <<Int0, None, None>>, <<Int5, None, None>>,
                <<None, Q_intl, None>> } }

\* a or b or c
FirstTruthy(f) ==
    IF Truthy(f[1]) THEN f[1] ELSE IF Truthy(f[2]) THEN f[2] ELSE f[3]

\* what the upstream may answer with status 200
UpstreamDocuments ==
    { <<>>,
      <<Table("other", FALSE, <<>>)>>,
      <<Table("api-response", TRUE,
              << <<<<"a">>, <<"n">>, <<"c">>, <<"x">>>>,
                 <<<<"a">>, <<"n">>, <<"c">>, <<"y">>>> >>)>> }

(***************************************************************************)
(* Responses and locals.                                                   *)
(***************************************************************************)
NoResponse == [status |-> 0, kind |-> "none", body |-> [developer |-> ""]]

\* lines 218 and 246
UsageError(msg) ==
    [status |-> 400, kind |-> "usage",
     body |-> [error |-> msg, developer |-> DEVELOPER]]

FetchFailedAs400(e) ==
    [status |-> 400, kind |-> "error",
     body |-> [error |-> "Fetch failed", detail |-> e.detail,
               developer |-> DEVELOPER]]

\* lines 226, 237 and 254
FetchFailed(e) ==
    [status |-> 500, kind |-> "error",
     body |-> [error |-> "Fetch failed", detail |-> e.detail,
               developer |-> DEVELOPER]]

\* lines 224, 235 and 252
Success(query, qtype, results) ==
    [status |-> 200, kind |-> "result",
     body |-> make_response_object(query, qtype, results)]

\* an exception no handler catches: the framework answers 500 itself
Unhandled ==
    [status |-> 500, kind |-> "unhandled", body |-> [developer |-> ""]]

NoExc == Returned("", <<>>)

NoLocals ==
    [qtype |-> "", normalized |-> <<>>, wake |-> 0,
     fetched |-> FALSE, html |-> <<>>, e |-> NoExc]

Init ==
    /\ clock = MIN_INTERVAL
    /\ LAST_CALL = 0
    /\ pc = [t \in Threads |-> "idle"]
    /\ req = [t \in Threads |-> NoRequest]
    /\ local = [t \in Threads |-> NoLocals]
    /\ resp = [t \in Threads |-> NoResponse]
    /\ acquires = [t \in Threads |-> 0]
    /\ posts = [t \in Threads |-> 0]
    /\ calls = <<>>
    /\ served = 0
    /\ arg = [fn |-> "none", val |-> <<>>]
    /\ ret = [set |-> FALSE, val |-> NoExc]

(***************************************************************************)
(* The handlers, lines 212-254, up to the call of rate_limit_wait.         *)
(***************************************************************************)
\* No response waits to be sent.  Reply(t) reads and writes only what
\* belongs to thread t, so a step of another thread taken before it can as
\* well be taken after it: every other action waits for the response to be
\* sent.
Settled == \A t \in Threads : pc[t] # "done"

\* the request ends with response r, having caught e
Finish(t, r, e) ==
    /\ pc' = [pc EXCEPT ![t] = "done"]
    /\ resp' = [resp EXCEPT ![t] = r]
    /\ local' = [local EXCEPT ![t].e = e, ![t].wake = 0]

\* the try block as far as line 67, with rate_limit_wait run first
TryLookupWaitFirst(t, q) ==
    LET c == classify_query(q)
    IN  IF c.raised # "no"
        THEN /\ Finish(t, FetchFailed(c), c)
             /\ LAST_CALL' = clock
             /\ acquires' = [acquires EXCEPT ![t] = 1]
        ELSE /\ pc' = [pc EXCEPT ![t] = "rlw_elapsed"]
             /\ local' = [local EXCEPT ![t] =
                    [NoLocals EXCEPT !.qtype = c.kind, !.normalized = c.value]]
             /\ resp' = [resp EXCEPT ![t] = NoResponse]
             /\ acquires' = [acquires EXCEPT ![t] = 0]
             /\ UNCHANGED LAST_CALL

\* the try block as far as line 67: classify_query, then fetch_upstream
\* up to its call of rate_limit_wait
TryLookup(t, q) ==
    LET c == classify_query(q)
        disabled == Raised("PermissionError", "Upstream fetching disabled.")
    IN  /\ IF c.raised # "no" THEN Finish(t, FetchFailed(c), c)
           ELSE IF ~ALLOW_UPSTREAM THEN Finish(t, FetchFailed(disabled), disabled)
           ELSE /\ pc' = [pc EXCEPT ![t] = "rlw_elapsed"]
                /\ local' = [local EXCEPT ![t] =
                       [NoLocals EXCEPT !.qtype = c.kind, !.normalized = c.value]]
                /\ resp' = [resp EXCEPT ![t] = NoResponse]
        /\ acquires' = [acquires EXCEPT ![t] = 0]
        /\ UNCHANGED LAST_CALL

\* a request arrives at an idle thread
Receive(t, r) ==
    /\ Settled
    /\ pc[t] = "idle"
    /\ served < MaxRequests
    /\ served' = served + 1
    /\ req' = [req EXCEPT ![t] = r]
    /\ UNCHANGED <<clock, posts, calls, arg, ret>>

api_lookup_get(t) ==
    \E r \in GetRequests :
        /\ Receive(t, r)
        /\ LET q == FirstTruthy(r.fields)
           IN  IF ~Truthy(q)
               THEN /\ Finish(t, UsageError("Use ?query=<mobile or cnic>"), NoExc)
                    /\ acquires' = [acquires EXCEPT ![t] = 0]
                    /\ UNCHANGED LAST_CALL
               ELSE TryLookup(t, q)

api_lookup_path(t) ==
    \E r \in PathRequests :
        /\ Receive(t, r)
        /\ TryLookup(t, r.fields[1])

api_lookup_post(t) ==
    \E r \in PostRequests :
        /\ Receive(t, r)
        /\ IF r.json = "array"
           THEN \* data.get on a list: AttributeError outside the try
                /\ Finish(t, Unhandled, NoExc)
                /\ acquires' = [acquires EXCEPT ![t] = 0]
                /\ UNCHANGED LAST_CALL
           ELSE LET q == FirstTruthy(r.fields)
                IN  IF ~Truthy(q)
                    THEN /\ Finish(t, UsageError("Send JSON {\"query\":\"...\"}"), NoExc)
                         /\ acquires' = [acquires EXCEPT ![t] = 0]
                         /\ UNCHANGED LAST_CALL
                    ELSE TryLookup(t, q)

(***************************************************************************)
(* rate_limit_wait, lines 56-61, one action per read or write of         *)
(* LAST_CALL.  The clock read of line 57 is taken at the read of          *)
(* LAST_CALL of line 58: a read of the clock some ticks earlier makes     *)
(* elapsed smaller by those ticks and the sleep longer by as many, and a  *)
(* sleep may last longer than asked anyway (RlwWake).                     *)
(***************************************************************************)
\* lines 58-60 without the sleep
RlwElapsedNoSleep(t) ==
    /\ Settled
    /\ pc[t] = "rlw_elapsed"
    /\ pc' = [pc EXCEPT ![t] = "rlw_stamp"]
    /\ UNCHANGED <<clock, LAST_CALL, local, req, resp, acquires, posts, calls,
                   served, arg, ret>>

\* lines 57-60: elapsed = now - LAST_CALL["ts"]; the sleep, when there is
\* one, starts now and lasts at least MIN_INTERVAL - elapsed
RlwElapsed(t) ==
    /\ Settled
    /\ pc[t] = "rlw_elapsed"
    /\ LET now == clock
           elapsed == now - LAST_CALL
       IN  IF elapsed < MIN_INTERVAL
           THEN /\ local' = [local EXCEPT ![t].wake = clock + (MIN_INTERVAL - elapsed)]
                /\ pc' = [pc EXCEPT ![t] = "rlw_sleep"]
           ELSE /\ pc' = [pc EXCEPT ![t] = "rlw_stamp"]
                /\ UNCHANGED local
    /\ UNCHANGED <<clock, LAST_CALL, req, resp, acquires, posts, calls,
                   served, arg, ret>>

\* line 60: time.sleep returns, no sooner than asked
RlwWake(t) ==
    /\ Settled
    /\ pc[t] = "rlw_sleep"
    /\ clock >= local[t].wake
    /\ pc' = [pc EXCEPT ![t] = "rlw_stamp"]
    /\ UNCHANGED <<clock, LAST_CALL, local, req, resp, acquires, posts, calls,
                   served, arg, ret>>

\* line 61: LAST_CALL["ts"] = time.time()
RlwStamp(t) ==
    /\ Settled
    /\ pc[t] = "rlw_stamp"
    /\ LAST_CALL' = clock
    /\ acquires' = [acquires EXCEPT ![t] = @ + 1]
    /\ pc' = [pc EXCEPT ![t] = "post"]
    /\ UNCHANGED <<clock, local, req, resp, posts, calls, served, arg, ret>>

(***************************************************************************)
(* fetch_upstream from line 69 on, and the rest of the try block.          *)
(***************************************************************************)
\* line 83: the POST is issued
IssuePost(t) ==
    /\ Settled
    /\ pc[t] = "post"
    /\ calls' = Append(calls, clock)
    /\ posts' = [posts EXCEPT ![t] = @ + 1]
    /\ UNCHANGED <<clock, LAST_CALL, req, acquires, served, arg, ret>>

\* the upstream answers 200: lines 85 and 223-224
PostOk(t) ==
    \E html \in UpstreamDocuments :
        /\ IssuePost(t)
        /\ LET results == parse_table(html)
           IN  /\ pc' = [pc EXCEPT ![t] = "done"]
               /\ IF results.raised # "no"
                  THEN /\ resp' = [resp EXCEPT ![t] = FetchFailed(results)]
                       /\ local' = [local EXCEPT ![t].fetched = TRUE, ![t].html = html,
                                                 ![t].e = results,
                                                 ![t].wake = 0]
                  ELSE /\ resp' = [resp EXCEPT ![t] =
                              Success(local[t].normalized, local[t].qtype,
                                      results.value)]
                       /\ local' = [local EXCEPT ![t].fetched = TRUE, ![t].html = html,
                                                 ![t].wake = 0]

\* an upstream failure followed by a second attempt
UpstreamFailureRetry(t, e) ==
    /\ IssuePost(t)
    /\ pc' = [pc EXCEPT ![t] = "post"]
    /\ UNCHANGED <<local, resp>>

\* an upstream failure that no handler catches
UpstreamFailureUncaught(t, e) ==
    /\ IssuePost(t)
    /\ Finish(t, Unhandled, e)

\* session.post or raise_for_status raises e: line 226
UpstreamFailure(t, e) ==
    /\ IssuePost(t)
    /\ Finish(t, FetchFailed(e), e)

\* line 84: raise_for_status on a status that is no success
PostHttpError(t) ==
    UpstreamFailure(t, Raised("HTTPError", "404 Client Error: Not Found for url"))

\* line 83: no connection, or no answer within 20 seconds
PostNetworkError(t) ==
    UpstreamFailure(t, Raised("Timeout", "Read timed out. (read timeout=20)"))

\* the response is sent and the thread takes the next request
Reply(t) ==
    /\ pc[t] = "done"
    /\ pc' = [pc EXCEPT ![t] = "idle"]
    /\ req' = [req EXCEPT ![t] = NoRequest]
    /\ local' = [local EXCEPT ![t] = NoLocals]
    /\ resp' = [resp EXCEPT ![t] = NoResponse]
    /\ acquires' = [acquires EXCEPT ![t] = 0]
    /\ posts' = [posts EXCEPT ![t] = 0]
    /\ UNCHANGED <<clock, LAST_CALL, calls, served, arg, ret>>

\* time passes
Tick ==
    /\ Settled
    /\ clock < MIN_INTERVAL + MaxTicks
    /\ clock' = clock + 1
    /\ UNCHANGED <<LAST_CALL, pc, req, local, resp, acquires, posts, calls,
                   served, arg, ret>>

Step(t) ==
    \/ api_lookup_get(t)
    \/ api_lookup_path(t)
    \/ api_lookup_post(t)
    \/ RlwElapsed(t)
    \/ RlwWake(t)
    \/ RlwStamp(t)
    \/ PostOk(t)
    \/ PostHttpError(t)
    \/ PostNetworkError(t)
    \/ Reply(t)

Next == Tick \/ \E t \in Threads : Step(t)

\* requests handled concurrently by the threads of the server
Spec == Init /\ [][Next]_vars

NextSeq == Tick \/ Step(1)

\* requests handled one after the other by a single thread
SpecSeq == Init /\ [][NextSeq]_vars

(***************************************************************************)
(* classify_query and parse_table applied to an argument.                  *)
(***************************************************************************)
InitFn ==
    /\ clock = MIN_INTERVAL
    /\ LAST_CALL = 0
    /\ pc = [t \in Threads |-> "idle"]
    /\ req = [t \in Threads |-> NoRequest]
    /\ local = [t \in Threads |-> NoLocals]
    /\ resp = [t \in Threads |-> NoResponse]
    /\ acquires = [t \in Threads |-> 0]
    /\ posts = [t \in Threads |-> 0]
    /\ calls = <<>>
    /\ served = 0
    /\ arg \in { [fn |-> "classify_query", val |-> s] : s \in QueryStrings }
               \cup { [fn |-> "parse_table", val |-> d] : d \in Documents }
    /\ ret = [set |-> FALSE, val |-> NoExc]

CallClassify ==
    /\ arg.fn = "classify_query"
    /\ ~ret.set
    /\ ret' = [set |-> TRUE, val |-> classify_query(arg.val)]
    /\ UNCHANGED <<clock, LAST_CALL, pc, req, local, resp, acquires, posts,
                   calls, served, arg>>

CallParse ==
    /\ arg.fn = "parse_table"
    /\ ~ret.set
    /\ ret' = [set |-> TRUE, val |-> parse_table(arg.val)]
    /\ UNCHANGED <<clock, LAST_CALL, pc, req, local, resp, acquires, posts,
                   calls, served, arg>>

NextFn == CallClassify \/ CallParse

SpecFn == InitFn /\ [][NextFn]_vars

(***************************************************************************)
(* The claims about classify_query and parse_table, under SpecFn.          *)
(***************************************************************************)
Classified == arg.fn = "classify_query" /\ ret.set

Trimmed == Strip(arg.val)

AllDigits(s, from, to) == \A i \in from..to : IsDigit(s[i])

LocalForm(v) == Len(v) = 11 /\ v[1] = "0" /\ v[2] = "3" /\ AllDigits(v, 3, 11)

IntlForm(v) == Len(v) = 12 /\ v[1] = "9" /\ v[2] = "2" /\ AllDigits(v, 3, 12)

CnicForm(v) == Len(v) = 13 /\ AllDigits(v, 1, 13)

\* C5: an input whose trimmed form is 03 and 9 digits is classified mobile
\* with value 92 followed by the 10 digits after the leading 0, which is 12
\* characters and itself 92 and 10 digits; an input whose trimmed form is 92
\* and 10 digits is classified mobile with the trimmed value unchanged.
C5_MobileNormalized ==
    Classified =>
        /\ LocalForm(Trimmed) =>
              /\ ret.val.raised = "no"
              /\ ret.val.kind = "mobile"
              /\ ret.val.value = <<"9", "2">> \o SubSeq(Trimmed, 2, 11)
              /\ Len(ret.val.value) = 12
              /\ IntlForm(ret.val.value)
        /\ IntlForm(Trimmed) =>
              /\ ret.val.raised = "no"
              /\ ret.val.kind = "mobile"
              /\ ret.val.value = Trimmed

C5_Witness ==
    /\ Classified
    /\ arg.val = <<" ">> \o Q_local \o <<"\n">>
    /\ ret.val.kind = "mobile"
    /\ ret.val.value = Q_intl

\* C6: an input whose trimmed form is not, as a whole, 13 digits, 03 and 9
\* digits, or 92 and 10 digits makes classify_query raise the invalid-query
\* error; so does an input that only starts with, or contains, such a form.
C6_OthersRejected ==
    (Classified /\ ~CnicForm(Trimmed) /\ ~LocalForm(Trimmed) /\ ~IntlForm(Trimmed))
        => /\ ret.val.raised = "ValueError"
           /\ ret.val.detail = InvalidQueryMsg

C6_Witness ==
    /\ Classified
    /\ arg.val = Rep("7", 13) \o <<"x">>
    /\ ret.val.raised = "ValueError"

Parsed == arg.fn = "parse_table" /\ ret.set /\ FindTable(arg.val) # 0
          /\ arg.val[FindTable(arg.val)].hasBody

BodyRows == arg.val[FindTable(arg.val)].rows

BodyRecords == [i \in 1..Len(BodyRows) |-> RowRecord(BodyRows[i])]

SameKey(a, b) == a.mobile = b.mobile /\ a.cnic = b.cnic /\ a.name = b.name

\* the rows no earlier row shares its key with
FirstOfKey ==
    { i \in 1..Len(BodyRows) :
        \A j \in 1..(i - 1) : ~SameKey(BodyRecords[j], BodyRecords[i]) }

\* C7: parse_table returns one record per distinct (mobile, national_id,
\* name) key, the first row carrying the key, in the order of first
\* occurrence; rows without duplicate keys are all returned, in order.
C7_DedupFirstSeen ==
    Parsed =>
        /\ ret.val.raised = "no"
        /\ Len(ret.val.value) = Cardinality(FirstOfKey)
        /\ \A i \in FirstOfKey :
              ret.val.value[Cardinality({ j \in FirstOfKey : j <= i })]
                  = BodyRecords[i]
        /\ (FirstOfKey = 1..Len(BodyRows)) => ret.val.value = BodyRecords

C7_Witness ==
    /\ Parsed
    /\ Len(BodyRows) = 3
    /\ SameKey(BodyRecords[1], BodyRecords[3])
    /\ ~SameKey(BodyRecords[1], BodyRecords[2])
    /\ BodyRecords[1].address # BodyRecords[3].address
    /\ ret.val.value = <<BodyRecords[1], BodyRecords[2]>>

(***************************************************************************)
(* The claims about the requests, under Spec and SpecSeq.                  *)
(***************************************************************************)
\* C1: any two upstream calls are issued at least MIN_INTERVAL apart, in
\* every interleaving of the requests.
C1_CallsSpaced ==
    \A i, j \in 1..Len(calls) :
        i < j => calls[j] - calls[i] >= MIN_INTERVAL

\* C2: when one flow calls rate_limit_wait again and again, each timestamp
\* it records in LAST_CALL is at least MIN_INTERVAL later than the one
\* recorded before it.
C2_SequentialStampsSpaced ==
    [][ \A t \in Threads :
          (pc[t] = "rlw_stamp" /\ pc'[t] = "post" /\ LAST_CALL # 0)
              => LAST_CALL' >= LAST_CALL + MIN_INTERVAL ]_vars

\* the second call came less than MIN_INTERVAL after the first, slept, and
\* recorded a timestamp MIN_INTERVAL after the first
C2_Witness ==
    /\ pc[1] = "post"
    /\ local[1].wake # 0
    /\ calls # <<>>
    /\ LAST_CALL = calls[Len(calls)] + MIN_INTERVAL

Done(t) == pc[t] = "done"

\* the query the handler extracts from the request
QueryOf(r) == IF r.route = "path" THEN r.fields[1] ELSE FirstTruthy(r.fields)

\* the query input is present in the request
Supplied(r) == \E i \in 1..3 : r.fields[i] # None

\* the envelope {error: "Fetch failed", detail, developer} with HTTP 500
FetchFailedEnvelope(x, detail) ==
    /\ x.status = 500
    /\ x.kind = "error"
    /\ x.body.error = "Fetch failed"
    /\ x.body.detail = detail
    /\ x.body.developer = DEVELOPER

\* every error raised in the pipeline ends in the 500 envelope, and a
\* response is a success only when nothing was raised
ErrorsEnveloped(t) ==
    /\ local[t].e.raised # "no" => FetchFailedEnvelope(resp[t], local[t].e.detail)
    /\ resp[t].status = 200 =>
          /\ local[t].e.raised = "no"
          /\ resp[t].kind = "result"
          /\ local[t].fetched
    /\ (req[t].json # "array" /\ Truthy(QueryOf(req[t]))
          /\ classify_query(QueryOf(req[t])).raised # "no")
          => FetchFailedEnvelope(resp[t], classify_query(QueryOf(req[t])).detail)
    /\ (posts[t] = 1 /\ ~local[t].fetched)
          => /\ local[t].e.raised \in {"HTTPError", "Timeout"}
             /\ FetchFailedEnvelope(resp[t], local[t].e.detail)

\* C3 as stated: every error raised in the pipeline, on each route, gives
\* HTTP 500 with the envelope; HTTP 400 is given only when the query input
\* is missing, never for a query that was supplied.
C3_Original ==
    \A t \in Threads :
        Done(t) =>
            /\ ErrorsEnveloped(t)
            /\ resp[t].status = 400 => ~Supplied(req[t])

\* C3 amended: every error raised in the pipeline, on each route, gives
\* HTTP 500 with the envelope; HTTP 400 is given only when the query input
\* is missing or falsy (an empty string, the JSON number 0), never on the
\* path route and never for a non-empty query that is invalid.
C3_ErrorsEnveloped ==
    \A t \in Threads :
        Done(t) =>
            /\ ErrorsEnveloped(t)
            /\ resp[t].status = 400 =>
                  /\ req[t].route # "path"
                  /\ ~Truthy(QueryOf(req[t]))
                  /\ resp[t].kind = "usage"

C3_Witness ==
    \E t \in Threads :
        /\ Done(t)
        /\ req[t].route = "post"
        /\ local[t].e.raised = "Timeout"
        /\ resp[t].status = 500

\* C4 as stated: the query "abc" gives a 400 response citing the invalid
\* format.
C4_Original ==
    \A t \in Threads :
        (Done(t) /\ QueryOf(req[t]) = Q_abc) =>
            /\ resp[t].status = 400
            /\ resp[t].body.detail = InvalidQueryMsg

\* C4 amended: the query "abc" gives HTTP 500 with the envelope whose error
\* is "Fetch failed" and whose detail cites the invalid format.
C4_AbcIs500 ==
    \A t \in Threads :
        (Done(t) /\ QueryOf(req[t]) = Q_abc) =>
            /\ resp[t].status = 500
            /\ resp[t].body.error = "Fetch failed"
            /\ resp[t].body.detail = InvalidQueryMsg

C4_Witness ==
    \E t \in Threads :
        /\ Done(t)
        /\ req[t].route = "get"
        /\ QueryOf(req[t]) = Q_abc
        /\ resp[t].status = 500

\* the document holds no table, or no table with a tbody
NoTableBody(html) == \A i \in 1..Len(html) : ~html[i].hasBody

\* C8: when the upstream HTML holds no table, or a table without tbody, the
\* request succeeds: HTTP 200, results empty, results_count 0.
C8_NoTableIsEmptySuccess ==
    \A t \in Threads :
        (Done(t) /\ local[t].fetched /\ NoTableBody(local[t].html)) =>
            /\ resp[t].status = 200
            /\ resp[t].kind = "result"
            /\ resp[t].body.results = <<>>
            /\ resp[t].body.results_count = 0

C8_Witness ==
    \E t \in Threads :
        /\ Done(t)
        /\ local[t].html = <<Table("other", FALSE, <<>>)>>
        /\ resp[t].status = 200
        /\ resp[t].body.results_count = 0

\* C9: a request performs at most one rate_limit_wait and at most one
\* upstream call, the call after the wait; after an upstream failure it
\* answers with the error, without a second attempt.
C9_OneWaitOneCall ==
    \A t \in Threads :
        /\ posts[t] <= acquires[t]
        /\ acquires[t] <= 1
        /\ pc[t] = "post" => (acquires[t] = 1 /\ posts[t] = 0)
        /\ (posts[t] = 1 /\ ~local[t].fetched) =>
              (Done(t) /\ resp[t].status = 500)

C9_Witness ==
    \E t \in Threads :
        /\ Done(t)
        /\ local[t].e.raised = "HTTPError"
        /\ acquires[t] = 1
        /\ posts[t] = 1

\* request r has no query or a query classify_query rejects
FailsBeforeFetch(r) ==
    /\ r.route # "none"
    /\ r.json # "array"
    /\ \/ ~Truthy(QueryOf(r))
       \/ classify_query(QueryOf(r)).raised # "no"

\* C10: a request without query, or with a query classify_query rejects,
\* answers in the step that receives it, without calling rate_limit_wait or
\* the upstream, and that step leaves LAST_CALL and the upstream calls as
\* they were.
C10_EarlyFailureLeavesLimiter ==
    [][ \A t \in Threads :
          FailsBeforeFetch(req'[t]) =>
              /\ pc'[t] = "done"
              /\ acquires'[t] = 0
              /\ posts'[t] = 0
              /\ resp'[t].status \in {400, 500}
              /\ pc[t] = "idle" => (LAST_CALL' = LAST_CALL /\ calls' = calls) ]_vars

\* a rejected request answers while another request, which has recorded
\* its timestamp, is about to call the upstream
C10_Witness ==
    \E t, u \in Threads :
        /\ Done(t)
        /\ local[t].e.raised = "ValueError"
        /\ acquires[t] = 0
        /\ pc[u] = "post"
        /\ LAST_CALL = clock

=============================================================================
